---- MODULE Spec2Model ----
(***************************************************************************)
(* A model of smallWorld.py: the Vertex/Graph/Queue classes, the           *)
(* Watts-Strogatz construction (ring lattice + rewiring pass), the BFS     *)
(* average shortest path length and the clustering coefficient.            *)
(*                                                                         *)
(* Python objects are modelled by reference: a Vertex is an index into     *)
(* g.verts (the heap of Vertex objects ever constructed for the graph),    *)
(* because Vertex defines neither __eq__ nor __hash__ and connectedTo is   *)
(* keyed by object identity.  Python dicts keep insertion order, so a dict *)
(* is a sequence of <<key, value>> pairs.                                  *)
(***************************************************************************)
EXTENDS Integers, Sequences, FiniteSets

\* ------------------------------------------------------------------ bounds
\* Largest n passed to wattsStrogatzGraph.
MaxN == 5
\* Largest k passed to wattsStrogatzGraph.
MaxK == 4
\* Probabilities are multiples of 1/PDen; random.random() yields r/PDen, r < PDen.
PDen == 2
\* Number of Vertex objects the Graph API specification may construct.
MaxObj == 3
\* Number of vertex keys of the arbitrary graphs handed to the analyzers.
MaxV == 4

VARIABLES
  g,               \* the Graph: vertList, numVertices, and the Vertex objects
  err,             \* the exception raised by the last call ("" if none)
  pc,              \* position in the running function
  n, k, p,         \* wattsStrogatzGraph's parameters (p in units of 1/PDen)
  i,               \* wattsStrogatzGraph: the rewiring loop's vertex
  neighbors,       \* wattsStrogatzGraph: the snapshot list of line 149
  nbrIx,           \* wattsStrogatzGraph: position of `nbr` in neighbors
  rewired,         \* history: the rewiring steps so far, <<i, nbr id, new id>>
  startIx,         \* avgShortestPathLength: position of startVertex in g
  visited,         \* avgShortestPathLength: dict Vertex -> distance
  q,               \* avgShortestPathLength: the Queue's items
  currentVertex,   \* avgShortestPathLength: the dequeued Vertex
  connIx,          \* avgShortestPathLength: position of `neighbor` in the loop
  totalPathLength, pathCounts,
  avgPathLength,   \* the returned quotient, as <<numerator, denominator>>
  added,           \* history: each <<startVertex, neighbor, distance>> accumulated
  vIx,             \* clusteringCoefficient: position of v in g
  locals,          \* clusteringCoefficient: <<v, actual, possible>> per counted v
  cc               \* clusteringCoefficient: the returned quotient, <<num, den>>

vars == <<g, err, pc, n, k, p, i, neighbors, nbrIx, rewired,
          startIx, visited, q, currentVertex, connIx, totalPathLength,
          pathCounts, avgPathLength, added, vIx, locals, cc>>

wsVars == <<n, k, p, i, neighbors, nbrIx, rewired>>
bfsVars == <<startIx, visited, q, currentVertex, connIx, totalPathLength,
             pathCounts, avgPathLength, added>>
ccVars == <<vIx, locals, cc>>

\* ------------------------------------------------------------ Python dicts
\* A dict is a sequence of <<key, value>> in insertion order.
DictKeys(d) == [j \in DOMAIN d |-> d[j][1]]

DictHas(d, key) == \E j \in DOMAIN d : d[j][1] = key

DictGet(d, key) == d[CHOOSE j \in DOMAIN d : d[j][1] = key][2]

\* d[key] = val: an existing key keeps its place, a new one goes last.
DictSet(d, key, val) ==
  IF DictHas(d, key)
  THEN [j \in DOMAIN d |-> IF d[j][1] = key THEN <<key, val>> ELSE d[j]]
  ELSE Append(d, <<key, val>>)

\* del d[key], for a key that is present.
DictDel(d, key) == SelectSeq(d, LAMBDA e : e[1] # key)

\* ------------------------------------------------------------------ Vertex
\* Vertex.__init__
Vertex(key) == [id |-> key, connectedTo |-> <<>>]

\* Vertex.addNeighbor
addNeighbor(v, nbr, weight) ==
  [v EXCEPT !.connectedTo = DictSet(v.connectedTo, nbr, weight)]

\* Vertex.getConnections: the neighbour objects, in dict order
getConnections(v) == DictKeys(v.connectedTo)

\* ------------------------------------------------------------------- Graph
\* Graph.__init__
Graph == [vertList |-> <<>>, numVertices |-> 0, verts |-> <<>>]

\* Graph.__contains__ / `key in self.vertList`
Contains(G, key) == DictHas(G.vertList, key)

\* self.vertList[key]: the Vertex object (a reference into G.verts)
VertOf(G, key) == DictGet(G.vertList, key)

\* Graph.addVertex: counts and stores a new Vertex even if the key exists
addVertex(G, key) ==
  LET newVertex == Len(G.verts) + 1
  IN  [numVertices |-> G.numVertices + 1,
       verts       |-> Append(G.verts, Vertex(key)),
       vertList    |-> DictSet(G.vertList, key, newVertex)]

\* addEdge without line 70: the edge is recorded at f only
addEdgeOneWay(G, f, t, weight) ==
  LET G1 == IF ~Contains(G, f) THEN addVertex(G, f) ELSE G
      G2 == IF ~Contains(G1, t) THEN addVertex(G1, t) ELSE G1
      fo == VertOf(G2, f)
      to == VertOf(G2, t)
  IN  [G2 EXCEPT !.verts = [G2.verts EXCEPT ![fo] = addNeighbor(@, to, weight)]]

\* Graph.addEdge
addEdge(G, f, t, weight) ==
  LET G1 == IF ~Contains(G, f) THEN addVertex(G, f) ELSE G
      G2 == IF ~Contains(G1, t) THEN addVertex(G1, t) ELSE G1
      fo == VertOf(G2, f)
      to == VertOf(G2, t)
      V1 == [G2.verts EXCEPT ![fo] = addNeighbor(@, to, weight)]
      V2 == [V1 EXCEPT ![to] = addNeighbor(@, fo, weight)]
  IN  [G2 EXCEPT !.verts = V2]

\* Graph.deleteEdge raises KeyError at line 76 when the second `del` finds
\* no entry (after line 75 removed it: a self-loop, or a one-way entry).
deleteEdgeRaises(G, f, t) ==
  /\ Contains(G, f) /\ Contains(G, t)
  /\ DictHas(G.verts[VertOf(G, f)].connectedTo, VertOf(G, t))
  /\ LET fo == VertOf(G, f)
         to == VertOf(G, t)
         V1 == [G.verts EXCEPT ![fo].connectedTo = DictDel(@, to)]
     IN  ~DictHas(V1[to].connectedTo, fo)

\* Graph.deleteEdge: the graph it leaves (also when line 76 raises)
deleteEdge(G, f, t) ==
  IF Contains(G, f) /\ Contains(G, t)
  THEN LET fo == VertOf(G, f)
           to == VertOf(G, t)
       IN  IF DictHas(G.verts[fo].connectedTo, to)
           THEN LET V1 == [G.verts EXCEPT ![fo].connectedTo = DictDel(@, to)]
                    V2 == IF DictHas(V1[to].connectedTo, fo)
                          THEN [V1 EXCEPT ![to].connectedTo = DictDel(@, fo)]
                          ELSE V1
                IN  [G EXCEPT !.verts = V2]
           ELSE G
  ELSE G

\* Graph.__iter__: the stored Vertex objects, in vertList order
Iter(G) == [j \in DOMAIN G.vertList |-> G.vertList[j][2]]

\* Graph.getVertices
getVertices(G) == DictKeys(G.vertList)

\* ------------------------------------------------- reading a graph (helpers)
Range(s) == {s[j] : j \in DOMAIN s}

\* The ids of the neighbours of the vertex stored under key (line 156's list)
NbrIds(G, key) ==
  {G.verts[o].id : o \in Range(getConnections(G.verts[VertOf(G, key)]))}

Degree(G, key) == Len(G.verts[VertOf(G, key)].connectedTo)

\* The stored vertex of u lists the stored vertex of v with weight w
Lists(G, u, v, w) ==
  /\ Contains(G, u) /\ Contains(G, v)
  /\ \E e \in Range(G.verts[VertOf(G, u)].connectedTo) :
        e = <<VertOf(G, v), w>>

\* ------------------------------------------------------- unused-variable values
WsIdle == /\ n = 0 /\ k = 0 /\ p = 0 /\ i = 0 /\ neighbors = <<>>
          /\ nbrIx = 0 /\ rewired = <<>>

BfsIdle == /\ startIx = 0 /\ visited = <<>> /\ q = <<>> /\ currentVertex = 0
           /\ connIx = 0 /\ totalPathLength = 0 /\ pathCounts = 0
           /\ avgPathLength = <<0, 1>> /\ added = <<>>

CcIdle == /\ vIx = 0 /\ locals = <<>> /\ cc = <<0, 1>>

\* ============================================================ the Graph API
\* A client calling addVertex, addEdge and deleteEdge in any order.
Keys == {0, 1}
Weights == {0, 1}

InitGraph == /\ g = Graph /\ err = "" /\ pc = "api"
             /\ WsIdle /\ BfsIdle /\ CcIdle

CallAddVertex ==
  \E key \in Keys :
    /\ pc = "api"
    /\ Len(g.verts) < MaxObj
    /\ g' = addVertex(g, key)
    /\ err' = ""
    /\ UNCHANGED <<pc, wsVars, bfsVars, ccVars>>

CallAddEdge ==
  \E f \in Keys, t \in Keys, weight \in Weights :
    /\ pc = "api"
    /\ Len(addEdge(g, f, t, weight).verts) <= MaxObj
    /\ g' = addEdge(g, f, t, weight)
    /\ err' = ""
    /\ UNCHANGED <<pc, wsVars, bfsVars, ccVars>>

CallDeleteEdge ==
  \E f \in Keys, t \in Keys :
    /\ pc = "api"
    /\ g' = deleteEdge(g, f, t)
    /\ err' = IF deleteEdgeRaises(g, f, t) THEN "KeyError" ELSE ""
    /\ UNCHANGED <<pc, wsVars, bfsVars, ccVars>>

NextGraph == CallAddVertex \/ CallAddEdge \/ CallDeleteEdge

SpecGraph == InitGraph /\ [][NextGraph]_vars

\* C4: after any sequence of addVertex, addEdge and deleteEdge calls, the
\* vertex stored under u lists the vertex stored under v with weight w iff
\* the vertex stored under v lists the vertex stored under u with weight w.
C4_AdjacencySymmetric ==
  \A u \in Keys, v \in Keys, w \in Weights :
     Lists(g, u, v, w) <=> Lists(g, v, u, w)

\* Key 0 was added again after an edge 0-1 existed, and the edge was added
\* anew: vertex 1 lists the replaced Vertex 0 and the stored one.
C4_Witness ==
  /\ g.numVertices > Len(g.vertList)
  /\ Lists(g, 0, 1, 1) /\ Lists(g, 1, 0, 1)
  /\ Len(g.verts[VertOf(g, 1)].connectedTo) = 2

\* ====================================================== wattsStrogatzGraph
\* `g` before line 131 has run: no Graph exists yet.
NoGraph == [unbound |-> TRUE]

\* Lines 121-128: the parameter checks, in the code's order; "" when all pass.
CheckParams(nn, kk, pp) ==
  IF pp < 0 \/ pp > PDen THEN "p must be in [0, 1]"
  ELSE IF kk % 2 # 0 THEN "k must be even"
  ELSE IF nn < kk \/ nn < 3 THEN "n must be > k and >= 3"
  ELSE ""

\* range(lo, hi) as a sequence
PyRange(lo, hi) == [j \in 1 .. (IF hi > lo THEN hi - lo ELSE 0) |-> lo + j - 1]

\* Lines 134-135: for i in range(n): g.addVertex(i)
\* (here and below, `CHOOSE R \in {F(G1) : G1 \in {e}} : TRUE` is F(e) with e
\* computed once, before F is applied)
RECURSIVE AddVertices(_, _, _)
AddVertices(G, nn, ii) ==
  IF ii >= nn THEN G
  ELSE CHOOSE R \in {AddVertices(G1, nn, ii + 1) : G1 \in {addVertex(G, ii)}} :
         TRUE

\* Line 140: range(-half_k, half_k + 1)
RingOffsets(half_k) == PyRange(-half_k, half_k + 1)

\* Lines 139-144: the two nested loops; ii is i, oi the position in the offsets
RECURSIVE AddRingEdges(_, _, _, _, _)
AddRingEdges(G, nn, half_k, ii, oi) ==
  LET offs == RingOffsets(half_k) IN
  IF ii >= nn THEN G
  ELSE IF oi > Len(offs) THEN AddRingEdges(G, nn, half_k, ii + 1, 1)
  ELSE IF offs[oi] = 0 THEN AddRingEdges(G, nn, half_k, ii, oi + 1)
  ELSE CHOOSE R \in {AddRingEdges(G1, nn, half_k, ii, oi + 1) :
                       G1 \in {addEdge(G, ii, (ii + offs[oi]) % nn, 0)}} : TRUE

\* Lines 131-144: the ring lattice
RingLattice(nn, kk) ==
  AddRingEdges(AddVertices(Graph, nn, 0), nn, kk \div 2, 0, 1)

\* Line 149: list(g.getVertex(i).getConnections())
Snapshot(G, ii) == getConnections(G.verts[VertOf(G, ii)])

\* Line 151 as `nbr.getId() != i`
OwnedAny(G, ii, nbr) == G.verts[nbr].id # ii

\* Line 151: nbr.getId() > i
Owned(G, ii, nbr) == G.verts[nbr].id > ii

\* Line 152 as `random.random() <= p`
MarkedInclusive(r, pp) == r <= pp

\* Line 152: random.random() < p, for the draw r / PDen
Marked(r, pp) == r < pp

\* Line 155 as random.randint(0, n)
RandIntInclusive(nn) == 0 .. nn

\* Line 155: the values random.randint(0, n - 1) can return
RandInt(nn) == 0 .. (nn - 1)

\* Line 156 without the test against the current neighbours of i
AcceptableNotSelf(G, ii, cand) == cand # ii

\* Line 156: the candidate is accepted
Acceptable(G, ii, cand) == cand # ii /\ cand \notin NbrIds(G, ii)

\* Lines 158-159 without the deleteEdge call
RewireKeepOld(G, ii, nbr, cand) == addEdge(G, ii, cand, 0)

\* Lines 158-159: g.deleteEdge(i, nbr.getId()); g.addEdge(i, newNbrId)
Rewire(G, ii, nbr, cand) ==
  CHOOSE R \in {addEdge(G1, ii, cand, 0) :
                  G1 \in {deleteEdge(G, ii, G.verts[nbr].id)}} : TRUE

Ns == 0 .. MaxN
Ks == -2 .. MaxK
Ps == -1 .. (PDen + 1)
Draws == 0 .. (PDen - 1)

Init == /\ g = NoGraph /\ err = "" /\ pc = "check"
        /\ n \in Ns /\ k \in Ks /\ p \in Ps
        /\ i = 0 /\ neighbors = <<>> /\ nbrIx = 0 /\ rewired = <<>>
        /\ BfsIdle /\ CcIdle

\* Lines 121-128, a parameter check fails
Raise ==
  /\ pc = "check"
  /\ CheckParams(n, k, p) # ""
  /\ err' = CheckParams(n, k, p)
  /\ pc' = "raised"
  /\ UNCHANGED <<g, wsVars, bfsVars, ccVars>>

\* Lines 121-144, the checks pass: the ring lattice is built
Build ==
  /\ pc = "check"
  /\ CheckParams(n, k, p) = ""
  /\ g' = RingLattice(n, k)
  /\ i' = 0
  /\ pc' = "for_i"
  /\ UNCHANGED <<err, n, k, p, neighbors, nbrIx, rewired, bfsVars, ccVars>>

\* Lines 148-149: the next vertex of the rewiring loop and its snapshot
ForI ==
  /\ pc = "for_i"
  /\ i < n
  /\ neighbors' = Snapshot(g, i)
  /\ nbrIx' = 1
  /\ pc' = "for_nbr"
  /\ UNCHANGED <<g, err, n, k, p, i, rewired, bfsVars, ccVars>>

\* Line 171: return g
Return ==
  /\ pc = "for_i"
  /\ i >= n
  /\ pc' = "done"
  /\ UNCHANGED <<g, err, wsVars, bfsVars, ccVars>>

\* Line 150: the snapshot is exhausted
NbrsDone ==
  /\ pc = "for_nbr"
  /\ nbrIx > Len(neighbors)
  /\ i' = i + 1
  /\ pc' = "for_i"
  /\ UNCHANGED <<g, err, n, k, p, neighbors, nbrIx, rewired, bfsVars, ccVars>>

\* Lines 150-151: nbr.getId() <= i
NbrSkip ==
  /\ pc = "for_nbr"
  /\ nbrIx <= Len(neighbors)
  /\ ~Owned(g, i, neighbors[nbrIx])
  /\ nbrIx' = nbrIx + 1
  /\ UNCHANGED <<g, err, pc, n, k, p, i, neighbors, rewired, bfsVars, ccVars>>

\* Lines 150-152: the edge is owned and the draw is not below p
NbrKeep ==
  /\ pc = "for_nbr"
  /\ nbrIx <= Len(neighbors)
  /\ Owned(g, i, neighbors[nbrIx])
  /\ \E r \in Draws : ~Marked(r, p)
  /\ nbrIx' = nbrIx + 1
  /\ UNCHANGED <<g, err, pc, n, k, p, i, neighbors, rewired, bfsVars, ccVars>>

\* Lines 150-153: the edge is owned and the draw is below p
NbrMark ==
  /\ pc = "for_nbr"
  /\ nbrIx <= Len(neighbors)
  /\ Owned(g, i, neighbors[nbrIx])
  /\ \E r \in Draws : Marked(r, p)
  /\ pc' = "pick"
  /\ UNCHANGED <<g, err, wsVars, bfsVars, ccVars>>

\* Lines 154-156: a candidate that is i or a neighbour of i; the loop repeats
RejectTarget ==
  /\ pc = "pick"
  /\ \E cand \in RandInt(n) : ~Acceptable(g, i, cand)
  /\ UNCHANGED vars

\* Lines 154-159: an acceptable candidate; the edge is rewired
AcceptTarget ==
  /\ pc = "pick"
  /\ \E cand \in RandInt(n) :
       /\ Acceptable(g, i, cand)
       /\ g' = Rewire(g, i, neighbors[nbrIx], cand)
       /\ rewired' = Append(rewired, <<i, g.verts[neighbors[nbrIx]].id, cand>>)
  /\ nbrIx' = nbrIx + 1
  /\ pc' = "for_nbr"
  /\ UNCHANGED <<err, n, k, p, i, neighbors, bfsVars, ccVars>>

Next == \/ Raise \/ Build \/ ForI \/ Return \/ NbrsDone
        \/ NbrSkip \/ NbrKeep \/ NbrMark \/ RejectTarget \/ AcceptTarget

Spec == Init /\ [][Next]_vars

\* The steps of the rewiring pass that change the state
PassStep == \/ ForI \/ Return \/ NbrsDone \/ NbrSkip \/ NbrKeep \/ NbrMark
            \/ AcceptTarget

\* The rewiring pass under fair scheduling: the pass keeps stepping, and fair
\* target draws eventually give an acceptable candidate when one exists.
FairSpec == Spec /\ WF_vars(PassStep)

\* ------------------------------------------------ properties of the pass
Abs(x) == IF x < 0 THEN -x ELSE x

\* Circular distance between a and b on the ring of nn vertices
CircDist(a, b, nn) ==
  IF Abs(a - b) < nn - Abs(a - b) THEN Abs(a - b) ELSE nn - Abs(a - b)

\* The undirected edges between stored vertices, as sets of ids
EdgeSet(G) ==
  {{a, b} : <<a, b>> \in
     {e \in Range(getVertices(G)) \X Range(getVertices(G)) :
        e[2] \in NbrIds(G, e[1])}}

InPass == pc \in {"for_i", "for_nbr", "pick", "done"}

ValidSize == k >= 0 /\ n >= 3 /\ n > k

\* The id of `nbr`, the snapshot entry under consideration
NbrId == g.verts[neighbors[nbrIx]].id

\* No candidate can be accepted: i is adjacent to all n - 1 other vertices
NoRoom == pc = "pick" /\ \A cand \in RandInt(n) : ~Acceptable(g, i, cand)

\* C1: with p = 0 and a valid even k >= 0, n > k, the graph is the ring
\* lattice throughout the rewiring pass and at return: vertices 0..n-1, a
\* adjacent to b iff their circular distance is in 1..k/2, every degree k,
\* and no edge is ever marked or rewired.
C1_RingLatticeAtP0 ==
  (InPass /\ p = 0 /\ ValidSize) =>
     /\ Range(getVertices(g)) = 0 .. (n - 1)
     /\ g.numVertices = n
     /\ \A a \in 0 .. (n - 1) :
          /\ Degree(g, a) = k
          /\ \A b \in 0 .. (n - 1) :
               (b \in NbrIds(g, a)) <=> (CircDist(a, b, n) \in 1 .. (k \div 2))
     /\ rewired = <<>>
     /\ pc # "pick"

C1_Witness ==
  pc = "done" /\ p = 0 /\ n = 5 /\ k = 4 /\ NbrIds(g, 0) = {1, 2, 3, 4}

\* C2: once the checks have run with a valid p and an even k, the call has
\* raised the size error, with no graph created, exactly when n < 3 or n <= k.
C2_SizeErrorIffBadSize ==
  (pc # "check" /\ p \in 0 .. PDen /\ k % 2 = 0) =>
     ((n < 3 \/ n <= k) <=>
        (pc = "raised" /\ err = "n must be > k and >= 3" /\ g = NoGraph))

\* C3: with p = 1, in a pass that finishes, the rewiring steps are exactly
\* the n*k/2 edges of the initial lattice, each once, each at the turn of its
\* lower endpoint; and an edge marked for rewiring was never created by an
\* earlier rewiring step nor rewired before.
C3_EachLatticeEdgeRewiredOnce ==
  (InPass /\ p = PDen /\ ValidSize) =>
     /\ pc = "pick" =>
          \A j \in DOMAIN rewired :
             /\ {rewired[j][1], rewired[j][3]} # {i, NbrId}
             /\ <<rewired[j][1], rewired[j][2]>> # <<i, NbrId>>
     /\ pc = "done" =>
          /\ Len(rewired) = (n * k) \div 2
          /\ \A a \in 0 .. (n - 1), b \in 0 .. (n - 1) :
               (a < b /\ CircDist(a, b, n) \in 1 .. (k \div 2)) =>
                  Cardinality({j \in DOMAIN rewired :
                                 rewired[j][1] = a /\ rewired[j][2] = b}) = 1

C3_Witness ==
  pc = "done" /\ p = PDen /\ n = 5 /\ k = 2 /\ Len(rewired) = 5

\* C6 as claimed: right after a rewiring step of vertex i, i has degree k.
C6_DegreeKAfterOwnRewiring ==
  (pc \in {"for_nbr", "pick"} /\ ValidSize /\ rewired # <<>>
     /\ rewired[Len(rewired)][1] = i) => Degree(g, i) = k

\* C6 amended: throughout the turn of vertex i, so right after each of its
\* own rewiring steps, i has the degree it had when its snapshot was taken
\* (one edge removed, one added); that degree is k for vertex 0.
C6_DegreeUnchangedByOwnRewiring ==
  (pc \in {"for_nbr", "pick"} /\ ValidSize) =>
     /\ Degree(g, i) = Len(neighbors)
     /\ i = 0 => Degree(g, i) = k

C6_Witness ==
  /\ pc = "for_nbr" /\ ValidSize /\ rewired # <<>>
  /\ rewired[Len(rewired)][1] = i
  /\ Degree(g, i) # k

\* C9 as claimed: for n > k + 1, whenever an edge of i is marked, i has
\* fewer than n - 1 neighbours, so an acceptable target exists.
C9_MarkedVertexHasRoom ==
  (pc = "pick" /\ ValidSize /\ n > k + 1) =>
     (Degree(g, i) < n - 1 /\ ~NoRoom)

\* C9 amended: under fair draws the rewiring pass, once begun, returns,
\* unless an edge of a vertex adjacent to all others is marked; with
\* n > k + 1 that happens only for 0 < p < 1, so for p = 0 and p = 1 the
\* pass terminates.
C9_TerminatesUnlessNoRoom ==
  InPass ~> (\/ pc = "done"
             \/ (NoRoom /\ (n <= k + 1 \/ (0 < p /\ p < PDen))))

C9_Witness ==
  pc = "done" /\ p = PDen /\ n = 5 /\ k = 2 /\ Len(rewired) = 5
  /\ \E j \in DOMAIN rewired : rewired[j][1] = 3

\* C10: throughout the rewiring pass, for valid (n, k), the graph has exactly
\* the vertices 0..n-1 (numVertices = n, n Vertex objects) and n*k/2 edges,
\* the adjacency is symmetric, and the edge about to be deleted is present.
C10_VerticesAndEdgeCountKept ==
  (InPass /\ ValidSize) =>
     /\ g.numVertices = n
     /\ Len(g.verts) = n
     /\ Range(getVertices(g)) = 0 .. (n - 1)
     /\ Cardinality(EdgeSet(g)) = (n * k) \div 2
     /\ \A a \in 0 .. (n - 1) :
          /\ a \notin NbrIds(g, a)
          /\ Degree(g, a) = Cardinality(NbrIds(g, a))
          /\ \A b \in NbrIds(g, a) : a \in NbrIds(g, b)
     /\ pc = "pick" => NbrId \in NbrIds(g, i)

C10_Witness ==
  /\ pc = "for_nbr" /\ n = 5 /\ k = 2 /\ Len(rewired) >= 2
  /\ \E a \in 0 .. (n - 1) : Degree(g, a) = 4

\* ============================== avgShortestPathLength, clusteringCoefficient
\* ------------------------------------------------------------------- Queue
\* enqueue as self.items.append(item)
enqueueBack(items, item) == Append(items, item)

\* Queue.enqueue: self.items.insert(0, item)
enqueue(items, item) == <<item>> \o items

\* dequeue as self.items.pop(0)
dequeueFront(items) == [item |-> items[1], items |-> Tail(items)]

\* Queue.dequeue: self.items.pop(), the item returned and the items left
dequeue(items) ==
  [item |-> items[Len(items)], items |-> SubSeq(items, 1, Len(items) - 1)]

\* Queue.isEmpty
isEmpty(items) == items = <<>>

\* Line 211/213: currentDistance + 1
NextDistance(currentDistance) == currentDistance + 1

\* Line 216: totalPathLength / pathCounts if pathCounts > 0 else 0
Average(total, counts) == IF counts > 0 THEN <<total, counts>> ELSE <<0, 1>>

\* ------------------------------------------------- clusteringCoefficient
\* Line 251 with `!=` for `>`
CountsEdgeBothWays(G, neighbor_ids, nb, nn) ==
  G.verts[nn].id \in neighbor_ids /\ G.verts[nn].id # G.verts[nb].id

\* Line 251: the test that counts an entry nn of neighbour n's connections
CountsEdge(G, neighbor_ids, nb, nn) ==
  G.verts[nn].id \in neighbor_ids /\ G.verts[nn].id > G.verts[nb].id

\* Lines 244-252: `actual` for vertex v: one for every (n, nn) passing line 251
CountActual(G, v) ==
  LET nbrs == getConnections(G.verts[v])
      neighbor_ids == {G.verts[nbrs[j]].id : j \in DOMAIN nbrs}
  IN  Cardinality({e \in (DOMAIN nbrs) \X (1 .. Len(G.verts)) :
        /\ e[2] \in Range(getConnections(G.verts[nbrs[e[1]]]))
        /\ CountsEdge(G, neighbor_ids, nbrs[e[1]], e[2])})

\* Line 245: possible = k * (k - 1) / 2
Possible(kk) == (kk * (kk - 1)) \div 2

RECURSIVE ProdPossible(_, _)
ProdPossible(ls, j) == IF j > Len(ls) THEN 1 ELSE ls[j][3] * ProdPossible(ls, j + 1)

RECURSIVE SumScaled(_, _)
SumScaled(ls, j) ==
  IF j > Len(ls) THEN 0
  ELSE ls[j][2] * (ProdPossible(ls, 1) \div ls[j][3]) + SumScaled(ls, j + 1)

\* Lines 254-257: (sum of actual/possible) / count if count > 0 else 0,
\* as an exact quotient <<numerator, denominator>>
CCResult(ls) ==
  IF Len(ls) > 0 THEN <<SumScaled(ls, 1), Len(ls) * ProdPossible(ls, 1)>>
  ELSE <<0, 1>>

\* ---------------------------------------------------------- the input graphs
\* The graph a client builds with addVertex(0..nv-1) and then addEdge(a, b)
\* for the listed pairs, in order.
RECURSIVE AddEdges(_, _, _)
AddEdges(G, es, j) ==
  IF j > Len(es) THEN G
  ELSE CHOOSE R \in {AddEdges(G1, es, j + 1) :
                       G1 \in {addEdge(G, es[j][1], es[j][2], 0)}} : TRUE

\* The pairs a < b over 0..nv-1 that are in E, in lexicographic order
RECURSIVE PairSeq(_, _, _, _)
PairSeq(E, nv, a, b) ==
  IF a >= nv THEN <<>>
  ELSE IF b >= nv THEN PairSeq(E, nv, a + 1, a + 2)
  ELSE (IF <<a, b>> \in E THEN <<(<<a, b>>)>> ELSE <<>>) \o PairSeq(E, nv, a, b + 1)

Pairs(nv) == {e \in (0 .. (nv - 1)) \X (0 .. (nv - 1)) : e[1] < e[2]}

BuiltGraphs ==
  {AddEdges(AddVertices(Graph, nv, 0), PairSeq(E, nv, 0, 1), 1) :
     <<nv, E>> \in UNION {{<<m, F>> : F \in SUBSET Pairs(m)} : m \in 1 .. MaxV}}

\* A built graph with a self-loop added at 0; a built graph after addVertex
\* of its last key again (the old Vertex stays referenced by its neighbours),
\* and then possibly one more addEdge from that key to the first or last key.
VariantGraphs ==
  UNION {{addEdge(G, 0, 0, 0), addVertex(G, G.numVertices - 1)} \cup
         {addEdge(addVertex(G, G.numVertices - 1), G.numVertices - 1, t, 0) :
            t \in {0, G.numVertices - 1}} :
         G \in BuiltGraphs}

Lattices ==
  {RingLattice(nn, kk) :
     <<nn, kk>> \in {e \in (3 .. MaxN) \X (0 .. MaxK) : e[2] % 2 = 0 /\ e[1] > e[2]}}

Hexagon == RingLattice(6, 2)

InputGraphs == BuiltGraphs \cup VariantGraphs \cup Lattices \cup {Hexagon}

InitAnalysis ==
  /\ g \in InputGraphs /\ err = "" /\ pc = "bfs_for"
  /\ WsIdle /\ BfsIdle /\ CcIdle

\* The Vertex the BFS started from
StartVertex == Iter(g)[startIx]

\* Lines 200-203: the next startVertex; visited = {startVertex: 0}, q seeded
BfsStart ==
  /\ pc = "bfs_for"
  /\ startIx < Len(Iter(g))
  /\ startIx' = startIx + 1
  /\ visited' = <<(<<Iter(g)[startIx + 1], 0>>)>>
  /\ q' = enqueue(<<>>, Iter(g)[startIx + 1])
  /\ pc' = "bfs_while"
  /\ UNCHANGED <<g, err, wsVars, currentVertex, connIx, totalPathLength,
                 pathCounts, avgPathLength, added, ccVars>>

\* Lines 216-217: every vertex has been a source; the average is returned
BfsReturn ==
  /\ pc = "bfs_for"
  /\ startIx >= Len(Iter(g))
  /\ avgPathLength' = Average(totalPathLength, pathCounts)
  /\ pc' = "cc_for"
  /\ UNCHANGED <<g, err, wsVars, startIx, visited, q, currentVertex, connIx,
                 totalPathLength, pathCounts, added, ccVars>>

\* Lines 205-207: currentVertex = q.dequeue()
BfsDequeue ==
  /\ pc = "bfs_while"
  /\ ~isEmpty(q)
  /\ currentVertex' = dequeue(q).item
  /\ q' = dequeue(q).items
  /\ connIx' = 1
  /\ pc' = "bfs_nbr"
  /\ UNCHANGED <<g, err, wsVars, startIx, visited, totalPathLength,
                 pathCounts, avgPathLength, added, ccVars>>

\* Line 205: the queue is empty, the BFS from startVertex is over
BfsDrained ==
  /\ pc = "bfs_while"
  /\ isEmpty(q)
  /\ pc' = "bfs_for"
  /\ UNCHANGED <<g, err, wsVars, bfsVars, ccVars>>

\* Lines 209-214: a neighbor not in visited
BfsVisit ==
  /\ pc = "bfs_nbr"
  /\ connIx <= Len(getConnections(g.verts[currentVertex]))
  /\ LET neighbor == getConnections(g.verts[currentVertex])[connIx]
         currentDistance == DictGet(visited, currentVertex)
     IN  /\ ~DictHas(visited, neighbor)
         /\ visited' = DictSet(visited, neighbor, NextDistance(currentDistance))
         /\ q' = enqueue(q, neighbor)
         /\ totalPathLength' = totalPathLength + NextDistance(currentDistance)
         /\ pathCounts' = pathCounts + 1
         /\ added' = Append(added, <<StartVertex, neighbor,
                                     NextDistance(currentDistance)>>)
  /\ connIx' = connIx + 1
  /\ UNCHANGED <<g, err, pc, wsVars, startIx, currentVertex, avgPathLength,
                 ccVars>>

\* Lines 209-210: a neighbor already in visited
BfsSeen ==
  /\ pc = "bfs_nbr"
  /\ connIx <= Len(getConnections(g.verts[currentVertex]))
  /\ DictHas(visited, getConnections(g.verts[currentVertex])[connIx])
  /\ connIx' = connIx + 1
  /\ UNCHANGED <<g, err, pc, wsVars, startIx, visited, q, currentVertex,
                 totalPathLength, pathCounts, avgPathLength, added, ccVars>>

\* Line 209: currentVertex's connections are exhausted
BfsNbrsDone ==
  /\ pc = "bfs_nbr"
  /\ connIx > Len(getConnections(g.verts[currentVertex]))
  /\ pc' = "bfs_while"
  /\ UNCHANGED <<g, err, wsVars, bfsVars, ccVars>>

\* Lines 236-241: a vertex with fewer than two neighbours is skipped
CcSkip ==
  /\ pc = "cc_for"
  /\ vIx < Len(Iter(g))
  /\ Len(getConnections(g.verts[Iter(g)[vIx + 1]])) < 2
  /\ vIx' = vIx + 1
  /\ UNCHANGED <<g, err, pc, wsVars, bfsVars, locals, cc>>

\* Lines 236-255: actual and possible of a vertex with two or more neighbours
CcVertex ==
  /\ pc = "cc_for"
  /\ vIx < Len(Iter(g))
  /\ LET v == Iter(g)[vIx + 1]
         kk == Len(getConnections(g.verts[v]))
     IN  /\ kk >= 2
         /\ locals' = Append(locals, <<v, CountActual(g, v), Possible(kk)>>)
  /\ vIx' = vIx + 1
  /\ UNCHANGED <<g, err, pc, wsVars, bfsVars, cc>>

\* Line 257: return totalC / count if count > 0 else 0
CcReturn ==
  /\ pc = "cc_for"
  /\ vIx >= Len(Iter(g))
  /\ cc' = CCResult(locals)
  /\ pc' = "analysed"
  /\ UNCHANGED <<g, err, wsVars, bfsVars, vIx, locals>>

NextAnalysis == \/ BfsStart \/ BfsReturn \/ BfsDequeue \/ BfsDrained
                \/ BfsVisit \/ BfsSeen \/ BfsNbrsDone
                \/ CcSkip \/ CcVertex \/ CcReturn

SpecAnalysis == InitAnalysis /\ [][NextAnalysis]_vars

\* ------------------------------------------------ properties of the analyzers
Objects(G) == 1 .. Len(G.verts)

\* The Vertex objects that o lists
Succ(G, o) == Range(getConnections(G.verts[o]))

\* There is a walk of exactly m edges from s to t
RECURSIVE Walk(_, _, _, _)
Walk(G, s, t, m) ==
  IF m = 0 THEN s = t ELSE \E u \in Succ(G, s) : Walk(G, u, t, m - 1)

Reachable(G, s, t) == \E m \in 0 .. (Len(G.verts) - 1) : Walk(G, s, t, m)

\* The minimum number of edges of a walk from s to t
Dist(G, s, t) ==
  CHOOSE m \in 0 .. (Len(G.verts) - 1) :
    Walk(G, s, t, m) /\ \A m2 \in 0 .. (m - 1) : ~Walk(G, s, t, m2)

RECURSIVE SumDist(_, _)
SumDist(as, j) == IF j > Len(as) THEN 0 ELSE as[j][3] + SumDist(as, j + 1)

BfsDone == pc \in {"cc_for", "analysed"}

\* No Vertex was replaced, no self-loop, and the adjacency is symmetric
SimpleGraph(G) ==
  /\ Len(G.verts) = Len(G.vertList)
  /\ \A o \in Objects(G) :
       o \notin Succ(G, o) /\ \A u \in Succ(G, o) : o \in Succ(G, u)

\* The unordered pairs of distinct neighbours of v that are adjacent
AdjacentNbrPairs(G, v) ==
  {e \in SUBSET Succ(G, v) :
     \E a \in e, b \in e : a # b /\ e = {a, b} /\ b \in Succ(G, a)}

CompleteGraph(G) ==
  /\ SimpleGraph(G) /\ Len(G.verts) >= 3
  /\ \A o \in Objects(G) : Succ(G, o) = Objects(G) \ {o}

\* C5 as claimed: on the 6-cycle the returned average is 3/2.
C5_HexagonAverageIsThreeHalves ==
  (g = Hexagon /\ BfsDone) =>
     /\ 2 * totalPathLength = 3 * pathCounts
     /\ 2 * avgPathLength[1] = 3 * avgPathLength[2]

\* C5 amended: on the 6-cycle (n = 6, k = 2, p = 0) the six BFS runs
\* accumulate totalPathLength = 54 over pathCounts = 30 pairs (distances
\* 1, 1, 2, 2, 3 from every source), so the returned average is 9/5 = 1.8.
C5_HexagonAverageIsNineFifths ==
  (g = Hexagon /\ BfsDone) =>
     /\ totalPathLength = 54 /\ pathCounts = 30
     /\ 5 * avgPathLength[1] = 9 * avgPathLength[2]

C5_Witness ==
  g = Hexagon /\ pc = "analysed" /\ avgPathLength = <<54, 30>>

C8_BfsAccumulatesEachReachablePairOnce ==
  /\ pathCounts = Len(added)
  /\ totalPathLength = SumDist(added, 1)
  /\ \A j \in DOMAIN added, j2 \in DOMAIN added :
       (added[j][1] = added[j2][1] /\ added[j][2] = added[j2][2]) => j = j2
  /\ added # <<>> =>
       LET e == added[Len(added)]
       IN  e[1] # e[2] /\ Reachable(g, e[1], e[2]) /\ e[3] = Dist(g, e[1], e[2])
  /\ BfsDone =>
       /\ {<<added[j][1], added[j][2]>> : j \in DOMAIN added} =
            {e \in Range(Iter(g)) \X Objects(g) :
               e[1] # e[2] /\ Reachable(g, e[1], e[2])}
       /\ avgPathLength = IF pathCounts = 0 THEN <<0, 1>>
                          ELSE <<totalPathLength, pathCounts>>

C8_Witness ==
  /\ pc = "analysed" /\ pathCounts > 0
  /\ \E s \in Range(Iter(g)), t \in Objects(g) : ~Reachable(g, s, t)
  /\ \E j \in DOMAIN added : added[j][3] = 3

====
